---- MODULE Spec2Model ----
(***************************************************************************)
(* A model of the NSE OI-Volume backend:                                   *)
(*   - backend/app/services/nse_client.py : the shared session, the        *)
(*     retrying fetch _request_json and its last-good cache;               *)
(*   - backend/app/routers/option_chain.py : the endpoints that turn a     *)
(*     fetch outcome into an HTTP status;                                  *)
(*   - backend/app/services/parser.py : the per-strike classifier          *)
(*     build_oi_volume_summary and its helpers.                            *)
(*                                                                         *)
(* Text is modelled as a sequence of tokens, so that _cache_key really     *)
(* formats its result.  A Python float is modelled by the exact fraction   *)
(* it approximates; the classifier is applied to snapshots of at most ten  *)
(* strikes with the volumes and prices listed below, on which the doubles  *)
(* of the source fall on the same side of every threshold as the fractions.*)
(***************************************************************************)
EXTENDS Integers, Sequences, FiniteSets, TLC

VARIABLES
    now,                      \* time.time(), in seconds
    _SESSION_LOCK,            \* 0 when free, else the thread holding it
    _SESSION,                 \* 0 for None, else the id of the shared session object
    _SESSION_LAST_PRIME_TS,
    session_primed,           \* the session objects whose two priming GETs have completed
    _LAST_GOOD_CACHE,         \* key -> [ts, payload]
    pc,                       \* per request thread: where it stands
    frame,                    \* per request thread: the locals of _request_json
    resp,                     \* per request thread: the HTTP response it sent
    served,                   \* requests answered by threads that took another one
    data,                     \* classifier input: records.data of a snapshot
    rows                      \* classifier output for data

vars == <<now, _SESSION_LOCK, _SESSION, _SESSION_LAST_PRIME_TS, session_primed,
          _LAST_GOOD_CACHE, pc, frame, resp, served, data, rows>>

-----------------------------------------------------------------------------
(* Bounds of the model *)

Threads == {1, 2}             \* request threads of the server's pool, one request each
TickDeltas == {120}           \* how far one step of the clock moves, seconds
BootTime == 600               \* the clock when the process starts
MaxTicks == 2                 \* the clock stops after this many steps
MaxCalls == 3                 \* requests one thread serves in a row

-----------------------------------------------------------------------------
(* nse_client.py: constants *)

BASE_URL == "https://www.nseindia.com/api/option-chain-v3"

_SESSION_PRIME_INTERVAL_SEC == 600
_LAST_GOOD_CACHE_TTL_SEC == 120
Attempts == 3                 \* range(3)


\* The error texts _request_json can record (lines 69, 78, 83, 88).
HTTPStatusError(code) == <<"HTTP", code>>
EmptyPayloadError == <<"Empty JSON payload">>
UnknownError == <<"Unknown error">>
ExcText(exc) == <<exc>>          \* str(exc) of a raised exception

\* Python's sorted() over the parameter names the client uses.
ParamNames == <<"expiry", "functionName", "symbol", "type">>

sorted_keys(params) == SelectSeq(ParamNames, LAMBDA k : k \in DOMAIN params)

RECURSIVE join(_, _)
join(sep, parts) ==
    IF parts = <<>> THEN <<>>
    ELSE IF Len(parts) = 1 THEN Head(parts)
    ELSE Head(parts) \o <<sep>> \o join(sep, Tail(parts))

\* _cache_key: f"{url}?{'&'.join(f'{k}={params[k]}' for k in sorted(params))}"
_cache_key(url, params) ==
    LET ks == sorted_keys(params)
        parts == [i \in 1..Len(ks) |-> <<ks[i], "=", params[ks[i]]>>]
    IN  <<url, "?">> \o join("&", parts)

\* fetch_option_chain: expiry is added only when truthy ("" stands for None too).
fetch_option_chain(symbol, expiry, instrument_type) ==
    [url |-> BASE_URL,
     params |-> IF expiry # ""
                THEN [type |-> instrument_type, symbol |-> symbol, expiry |-> expiry]
                ELSE [type |-> instrument_type, symbol |-> symbol],
     context |-> "option chain"]


-----------------------------------------------------------------------------
(* The provider: what a GET can come back with *)

\* Outcomes of the data GET of line 76 and of what lines 77-84 make of it.
GetOutcomes == {"401", "403", "HTTPError", "JSONDecodeError", "empty", "ok"}
\* The outcomes followed when two requests run at once.
ConcurrentOutcomes == {"403", "ok"}

\* Non-empty JSON bodies the provider serves with a 200 for a URL; the empty
\* document ({}) is the outcome "empty".
BodiesOf(url) == IF url = BASE_URL THEN {"norecords", "chain"} ELSE {"other"}
Bodies == {"norecords", "chain", "other"}
\* The bodies followed when two requests run at once.
ConcurrentBodies == {"chain"}

NoReq == [url |-> "", params |-> <<>>, context |-> ""]
NoPayload == [for |-> NoReq, body |-> "none"]

\* The document the provider returns for a request: it answers the URL and
\* parameters it was asked for.
Payload(req, body) == [for |-> req, body |-> body]

-----------------------------------------------------------------------------
(* Request threads *)

Endpoints == {"summary", "target-projection", "interpretations"}
Expiries == {"", "27-Nov-2026"}
\* The first request asks for the default expiry, the later ones for any.
ExpiriesOf(t) == IF t = 1 /\ served = 0 THEN {""} ELSE Expiries

NoResult == [kind |-> "none", payload |-> NoPayload, error |-> <<>>]

IdleFrame ==
    [req |-> NoReq, key |-> <<>>, last_error |-> <<>>, attempt |-> 0,
     session |-> 0, pnow |-> 0, gets |-> 0, outcome |-> "", result |-> NoResult]

NoResp == [ep |-> "", status |-> 0, nrows |-> 0]

\* A session object is known by its id; the id of an object nothing refers to
\* any more is free again.
SessionIds == 1..(Cardinality(Threads) + 2)

\* Those of the session objects in primed that are still referred to, by
\* _SESSION or by the local variable session of a call; the others are gone.
live_sessions(primed, shared, frames) ==
    {i \in primed : i = shared \/ \E u \in Threads : frames[u].session = i}

FetchInit ==
    /\ now = BootTime
    /\ _SESSION_LOCK = 0
    /\ _SESSION = 0
    /\ _SESSION_LAST_PRIME_TS = 0
    /\ session_primed = {}
    /\ _LAST_GOOD_CACHE = <<>>
    /\ pc = [t \in Threads |-> "idle"]
    /\ frame = [t \in Threads |-> IdleFrame]
    /\ resp = [t \in Threads |-> NoResp]
    /\ served = 0

\* The clock moves on its own.
Tick ==
    /\ \E d \in TickDeltas :
         /\ now + d <= BootTime + MaxTicks * d
         /\ now' = now + d
    /\ UNCHANGED <<_SESSION_LOCK, _SESSION, _SESSION_LAST_PRIME_TS, session_primed,
                   _LAST_GOOD_CACHE, pc, frame, resp>>

\* The request the three option-chain endpoints of routers/option_chain.py
\* make (use_sample false, the default symbol and instrument type).
RequestOf(expiry) == fetch_option_chain("NIFTY", expiry, "Indices")

\* A request arrives; _request_json starts (lines 68-69).  The threads of the
\* pool are interchangeable: they take their requests in the order of their
\* numbers.
Call(t) ==
    /\ pc[t] = "idle"
    /\ \A u \in Threads : u < t => pc[u] # "idle"
    /\ \E expiry \in ExpiriesOf(t) :
         LET req == RequestOf(expiry) IN
         frame' = [frame EXCEPT ![t] =
                     [IdleFrame EXCEPT !.req = req,
                                       !.key = _cache_key(req.url, req.params),
                                       !.last_error = UnknownError]]
    /\ pc' = [pc EXCEPT ![t] = "ensure"]
    /\ UNCHANGED <<now, _SESSION_LOCK, _SESSION, _SESSION_LAST_PRIME_TS, session_primed,
                   _LAST_GOOD_CACHE, resp>>

\* _ensure_session, line 45: with _SESSION_LOCK.
AcquireLock(t) ==
    /\ pc[t] = "ensure"
    /\ _SESSION_LOCK = 0
    /\ _SESSION_LOCK' = t
    /\ pc' = [pc EXCEPT ![t] = "locked"]
    /\ UNCHANGED <<now, _SESSION, _SESSION_LAST_PRIME_TS, session_primed,
                   _LAST_GOOD_CACHE, frame, resp>>

force_new(f) == f.attempt > 0

\* _create_session, lines 33-40: a new session object, one of SessionIds.
_create_session ==
    CHOOSE i \in SessionIds :
        /\ i # _SESSION
        /\ \A u \in Threads : frame[u].session # i
        /\ \A j \in SessionIds :
              (j # _SESSION /\ \A u \in Threads : frame[u].session # j) => i <= j

\* _ensure_session, lines 46-48, and the release of the lock.
EnsureSession(t) ==
    /\ pc[t] = "locked"
    /\ _SESSION_LOCK = t
    /\ IF force_new(frame[t]) \/ _SESSION = 0
       THEN _SESSION' = _create_session
       ELSE UNCHANGED _SESSION
    /\ frame' = [frame EXCEPT ![t].session = _SESSION']
    /\ session_primed' =
         live_sessions(IF _SESSION' # _SESSION
                       THEN session_primed \ {_SESSION'}
                       ELSE session_primed,
                       _SESSION', frame')
    /\ _SESSION_LOCK' = 0
    /\ pc' = [pc EXCEPT ![t] = "prime"]
    /\ UNCHANGED <<now, _SESSION_LAST_PRIME_TS, _LAST_GOOD_CACHE, resp>>

\* _prime_session, line 54: is the priming skipped?
prime_skipped(force, t_now, last_prime_ts) ==
    ~force /\ (t_now - last_prime_ts) < _SESSION_PRIME_INTERVAL_SEC

\* The loop of line 71 after a failed attempt: the next one, or the fallback.
NextAttempt(f, err, outcome) ==
    [f EXCEPT !.last_error = err, !.outcome = outcome, !.attempt = f.attempt + 1,
              !.session = 0, !.pnow = 0]

AfterFailure(f) == IF f.attempt + 1 < Attempts THEN "ensure" ELSE "fallback"

\* _prime_session, lines 53-55.
PrimeCheck(t) ==
    /\ pc[t] = "prime"
    /\ IF prime_skipped(force_new(frame[t]), now, _SESSION_LAST_PRIME_TS)
       THEN /\ pc' = [pc EXCEPT ![t] = "get"]
            /\ UNCHANGED frame
       ELSE /\ pc' = [pc EXCEPT ![t] = "prime1"]
            /\ frame' = [frame EXCEPT ![t].pnow = now]
    /\ UNCHANGED <<now, _SESSION_LOCK, _SESSION, _SESSION_LAST_PRIME_TS, session_primed,
                   _LAST_GOOD_CACHE, resp>>

\* _prime_session, line 57: the first priming GET returns, or raises into line 87.
PrimeGet1(t) ==
    /\ pc[t] = "prime1"
    /\ \/ /\ pc' = [pc EXCEPT ![t] = "prime2"]
          /\ UNCHANGED <<frame, session_primed>>
       \/ /\ frame' = [frame EXCEPT ![t] =
                         NextAttempt(@, ExcText("ConnectionError"), "ConnectionError")]
          /\ pc' = [pc EXCEPT ![t] = AfterFailure(frame[t])]
          /\ session_primed' = live_sessions(session_primed, _SESSION, frame')
    /\ UNCHANGED <<now, _SESSION_LOCK, _SESSION, _SESSION_LAST_PRIME_TS,
                   _LAST_GOOD_CACHE, resp>>

\* _prime_session, lines 58-59: the second priming GET, then the timestamp.
PrimeGet2(t) ==
    /\ pc[t] = "prime2"
    /\ \/ /\ _SESSION_LAST_PRIME_TS' = frame[t].pnow
          /\ session_primed' = session_primed \cup {frame[t].session}
          /\ pc' = [pc EXCEPT ![t] = "get"]
          /\ frame' = [frame EXCEPT ![t].pnow = 0]
       \/ /\ frame' = [frame EXCEPT ![t] =
                         NextAttempt(@, ExcText("ConnectionError"), "ConnectionError")]
          /\ pc' = [pc EXCEPT ![t] = AfterFailure(frame[t])]
          /\ session_primed' = live_sessions(session_primed, _SESSION, frame')
          /\ UNCHANGED _SESSION_LAST_PRIME_TS
    /\ UNCHANGED <<now, _SESSION_LOCK, _SESSION, _LAST_GOOD_CACHE, resp>>

\* Variant of ErrorOf that keeps no status text for a 401 or 403.
ErrorOf_without_status(outcome) ==
    IF outcome = "empty" THEN EmptyPayloadError ELSE UnknownError

\* The error text lines 77-88 record for a failed data GET.
ErrorOf(outcome) ==
    IF outcome \in {"401", "403"} THEN HTTPStatusError(outcome)
    ELSE IF outcome = "empty" THEN EmptyPayloadError
    ELSE ExcText(outcome)

\* Variant of cache_store that keeps the newest entry only.
cache_store_newest_only(cache, key, ts, payload) ==
    [k \in {key} |-> [ts |-> ts, payload |-> payload]]

\* Line 85: the cache after a success.
cache_store(cache, key, ts, payload) ==
    [k \in DOMAIN cache \cup {key} |->
        IF k = key THEN [ts |-> ts, payload |-> payload] ELSE cache[k]]

\* Lines 76-89: the data GET and what the attempt makes of its response.
DataGet(t, outcomes, bodies) ==
    /\ pc[t] = "get"
    /\ \E outcome \in outcomes :
         LET f == [frame[t] EXCEPT !.gets = @ + 1] IN
         IF outcome = "ok"
         THEN \E body \in BodiesOf(f.req.url) \cap bodies :
                LET payload == Payload(f.req, body) IN
                /\ _LAST_GOOD_CACHE' = cache_store(_LAST_GOOD_CACHE, f.key, now, payload)
                /\ frame' = [frame EXCEPT ![t] =
                               [f EXCEPT !.outcome = "ok",
                                         !.result = [kind |-> "fresh", payload |-> payload,
                                                     error |-> <<>>]]]
                /\ pc' = [pc EXCEPT ![t] = "handle"]
                /\ UNCHANGED session_primed
         ELSE /\ frame' = [frame EXCEPT ![t] = NextAttempt(f, ErrorOf(outcome), outcome)]
              /\ pc' = [pc EXCEPT ![t] = AfterFailure(frame[t])]
              /\ session_primed' = live_sessions(session_primed, _SESSION, frame')
              /\ UNCHANGED _LAST_GOOD_CACHE
    /\ UNCHANGED <<now, _SESSION_LOCK, _SESSION, _SESSION_LAST_PRIME_TS,
                   resp>>

\* Variant of cache_usable that serves an entry of any age.
cache_usable_any_age(cache, key, t_now) ==
    key \in DOMAIN cache

\* Line 92: is the cached entry served?
cache_usable(cache, key, t_now) ==
    /\ key \in DOMAIN cache
    /\ (t_now - cache[key].ts) <= _LAST_GOOD_CACHE_TTL_SEC

\* Line 95: the terminal error.
AcquisitionError(context, last_error) ==
    <<"NSE", context, "failed after retries:">> \o last_error

\* Lines 91-95: every attempt failed.
Fallback(t) ==
    /\ pc[t] = "fallback"
    /\ frame' = [frame EXCEPT ![t].result =
                   IF cache_usable(_LAST_GOOD_CACHE, frame[t].key, now)
                   THEN [kind |-> "cached", payload |-> _LAST_GOOD_CACHE[frame[t].key].payload,
                         error |-> <<>>]
                   ELSE [kind |-> "error", payload |-> NoPayload,
                         error |-> AcquisitionError(frame[t].req.context,
                                                    frame[t].last_error)]]
    /\ pc' = [pc EXCEPT ![t] = "handle"]
    /\ UNCHANGED <<now, _SESSION_LOCK, _SESSION, _SESSION_LAST_PRIME_TS, session_primed,
                   _LAST_GOOD_CACHE, resp>>


-----------------------------------------------------------------------------
(* parser.py: Python values *)

\* A JSON number n is Num(n), JSON null is None; a dict is a function on the
\* keys it holds.  A float is a fraction [n, d] with d > 0.
None == <<>>
Num(n) == <<n>>
val(x) == x[1]
truthy(x) == x # None /\ x # Num(0)
or0(x) == IF truthy(x) THEN x ELSE Num(0)
EmptyDict == [k \in {} |-> None]
get(d, k, default) == IF k \in DOMAIN d THEN d[k] ELSE default

RECURSIVE gcd(_, _)
gcd(a, b) == IF b = 0 THEN a ELSE gcd(b, a % b)
Abs(x) == IF x < 0 THEN -x ELSE x

\* The fraction n/d (d # 0) in lowest terms.
R(n, d) ==
    LET g == gcd(Abs(n), Abs(d)) IN
    IF d < 0 THEN [n |-> (-n) \div g, d |-> (-d) \div g] ELSE [n |-> n \div g, d |-> d \div g]
Zero == R(0, 1)
RGe(a, b) == a.n * b.d >= b.n * a.d
RLe(a, b) == a.n * b.d <= b.n * a.d
RGt(a, b) == a.n * b.d > b.n * a.d
RLt(a, b) == a.n * b.d < b.n * a.d
RAbs(a) == IF a.n < 0 THEN [n |-> -a.n, d |-> a.d] ELSE a
RAdd(a, b) == R(a.n * b.d + b.n * a.d, a.d * b.d)

-----------------------------------------------------------------------------
(* parser.py: the classifier.  The arrows of the source are written        *)
(* "up", "down" and "neutral".                                             *)

\* _price_direction, lines 8-16: <<direction, price_change_pct>>
_price_direction(last_price, prev_price) ==
    IF ~truthy(prev_price) THEN <<"neutral", Zero>>
    ELSE LET price_change_pct == R((val(last_price) - val(prev_price)) * 100, val(prev_price))
         IN  IF RGe(price_change_pct, R(1, 2)) THEN <<"up", price_change_pct>>
             ELSE IF RLe(price_change_pct, R(-1, 2)) THEN <<"down", price_change_pct>>
             ELSE <<"neutral", price_change_pct>>

\* _oi_direction, lines 18-27: <<direction, oi_change, oi_change_pct>>
_oi_direction(open_interest, prev_open_interest) ==
    LET oi_change == val(or0(open_interest)) - val(or0(prev_open_interest)) IN
    IF ~truthy(prev_open_interest) THEN <<"neutral", oi_change, Zero>>
    ELSE LET oi_change_pct == R(oi_change * 100, val(prev_open_interest))
         IN  IF RGt(oi_change_pct, R(1, 1)) THEN <<"up", oi_change, oi_change_pct>>
             ELSE IF RLt(oi_change_pct, R(-1, 1)) THEN <<"down", oi_change, oi_change_pct>>
             ELSE <<"neutral", oi_change, oi_change_pct>>

\* Variant of _volume_direction that decides by the ratio alone.
_volume_direction_by_ratio(volume, avg_volume, top_20_threshold) ==
    LET volume_ratio == IF avg_volume.n # 0
                        THEN R(val(volume) * avg_volume.d, avg_volume.n)
                        ELSE Zero
    IN  IF RGe(volume_ratio, R(6, 5)) THEN <<"up", volume_ratio>>
        ELSE IF RLe(volume_ratio, R(4, 5)) THEN <<"down", volume_ratio>>
        ELSE <<"neutral", volume_ratio>>

\* _volume_direction, lines 29-35: <<direction, volume_ratio>>
_volume_direction(volume, avg_volume, top_20_threshold) ==
    LET volume_ratio == IF avg_volume.n # 0
                        THEN R(val(volume) * avg_volume.d, avg_volume.n)
                        ELSE Zero
    IN  IF \/ RGe(volume_ratio, R(6, 5))
           \/ (truthy(top_20_threshold) /\ val(volume) >= val(top_20_threshold))
        THEN <<"up", volume_ratio>>
        ELSE IF RLe(volume_ratio, R(4, 5)) THEN <<"down", volume_ratio>>
        ELSE <<"neutral", volume_ratio>>

\* _interpret, lines 37-50: <<label, description>>
_interpret(price_dir, oi_dir, vol_dir) ==
    IF price_dir = "up" /\ oi_dir = "up" /\ vol_dir = "up"
    THEN <<"Strong Long Build-up", "Fresh bullish positions added aggressively.">>
    ELSE IF price_dir = "down" /\ oi_dir = "up" /\ vol_dir = "up"
    THEN <<"Strong Short Build-up", "Bearish positions building with conviction.">>
    ELSE IF price_dir = "up" /\ oi_dir = "down" /\ vol_dir = "up"
    THEN <<"Short Covering",
           "Short sellers exiting positions rapidly. Fast upside move possible.">>
    ELSE IF price_dir = "down" /\ oi_dir = "down" /\ vol_dir = "up"
    THEN <<"Long Unwinding", "Bulls exiting positions. Trend weakening.">>
    ELSE IF price_dir = "neutral" /\ oi_dir = "up" /\ vol_dir = "down"
    THEN <<"Quiet Position Building", "Smart money accumulation without price movement.">>
    ELSE IF price_dir = "neutral" /\ oi_dir = "down" /\ vol_dir = "down"
    THEN <<"No Interest Zone", "Low participation. Time decay dominates.">>
    ELSE <<"Mixed", "Signals are not aligned.">>

Max(a, b) == IF a >= b THEN a ELSE b
Min(a, b) == IF a <= b THEN a ELSE b

\* Variant of _confidence that returns the score unclamped.
_confidence_unclamped(price_change_pct, oi_change, volume_ratio, vol_dir) ==
    50 + (IF RGe(RAbs(price_change_pct), R(1, 2)) THEN 15 ELSE 0)
       + (IF oi_change # 0 THEN 15 ELSE 0)
       + (IF vol_dir = "up" THEN 20 ELSE 0)
       + (IF RGe(volume_ratio, R(3, 2)) THEN 5 ELSE 0)

\* _confidence, lines 51-62
_confidence(price_change_pct, oi_change, volume_ratio, vol_dir) ==
    LET s1 == 50 + (IF RGe(RAbs(price_change_pct), R(1, 2)) THEN 15 ELSE 0)
        s2 == s1 + (IF oi_change # 0 THEN 15 ELSE 0)
        s3 == s2 + (IF vol_dir = "up" THEN 20 ELSE 0)
        score == s3 + (IF RGe(volume_ratio, R(3, 2)) THEN 5 ELSE 0)
    IN  Max(0, Min(100, score))

\* sorted(vols, reverse=True)
RECURSIVE insert_desc(_, _)
insert_desc(x, s) ==
    IF s = <<>> THEN <<x>>
    ELSE IF x >= Head(s) THEN <<x>> \o s
    ELSE <<Head(s)>> \o insert_desc(x, Tail(s))

RECURSIVE sorted_desc(_)
sorted_desc(s) == IF s = <<>> THEN <<>> ELSE insert_desc(Head(s), sorted_desc(Tail(s)))

RECURSIVE sum(_)
sum(s) == IF s = <<>> THEN 0 ELSE Head(s) + sum(Tail(s))

\* Lines 73-77: the volumes of one side, null and absent counted as 0.
side_vols(data_, side) ==
    [i \in 1..Len(data_) |->
        val(or0(get(get(data_[i], side, EmptyDict), "totalTradedVolume", Num(0))))]

\* Lines 78-79: sum(vols) / len(vols) if vols else 0
avg_vol(vols) == IF vols # <<>> THEN R(sum(vols), Len(vols)) ELSE Zero

\* Variant of top_20 that reads index int(len * 0.2).
top_20_next_index(vols) ==
    IF vols # <<>>
    THEN Num(sorted_desc(vols)[((Len(vols) * 2) \div 10) + 1])
    ELSE None

\* Lines 80-83: sorted[max(0, int(len * 0.2) - 1)] if sorted else None
\* (int(n * 0.2) is the floor of n / 5; the index is 0-based in the source)
top_20(vols) ==
    IF vols # <<>>
    THEN Num(sorted_desc(vols)[Max(0, ((Len(vols) * 2) \div 10) - 1) + 1])
    ELSE None


\* Lines 93-98 (CE) and 100-105 (PE): the fields read from one side's dict.
side_fields(d) ==
    LET oi == get(d, "openInterest", Num(0))
        doi == get(d, "changeinOpenInterest", Num(0))
    IN  [oi |-> oi,
         doi |-> doi,
         vol |-> get(d, "totalTradedVolume", Num(0)),
         last |-> get(d, "lastPrice", Num(0)),
         prev |-> get(d, "prevPrice", get(d, "previousClose", Num(0))),
         \* the default oi - doi is computed whether or not it is used
         prev_oi |-> IF "prevOpenInterest" \in DOMAIN d THEN d["prevOpenInterest"]
                     ELSE IF "previousOpenInterest" \in DOMAIN d
                          THEN d["previousOpenInterest"]
                          ELSE IF oi = None \/ doi = None THEN None
                               ELSE Num(val(oi) - val(doi))]

\* Where build_oi_volume_summary raises TypeError on one side: the subtraction
\* of lines 98/105, of lines 11 and 161/177, and the division or comparison of
\* lines 30-31, each on a None.
side_raises(f, avg_volume, top_20_threshold) ==
    \/ f.oi = None \/ f.doi = None
    \/ (truthy(f.prev) /\ f.last = None)
    \/ (f.vol = None /\ (avg_volume.n # 0 \/ truthy(top_20_threshold)))

\* Lines 108-113: the comparisons of the two sides; each > raises on a None.
signal_raises(ce, pe) ==
    /\ ce.doi # None /\ pe.doi # None
    /\ val(pe.doi) # val(ce.doi)
    /\ (ce.vol = None \/ pe.vol = None)

signal_of(ce, pe) ==
    IF val(pe.doi) > val(ce.doi) /\ val(pe.vol) > val(ce.vol) THEN "PE Buildup (Bearish)"
    ELSE IF val(ce.doi) > val(pe.doi) /\ val(ce.vol) > val(pe.vol) THEN "CE Buildup (Bullish)"
    ELSE "Neutral"

\* Variant of is_noise that looks at the OI change only.
is_noise_by_oi_only(oi_change_pct, vol_ratio) ==
    RLt(RAbs(oi_change_pct), R(1, 2))

\* Line 125/126: the noise filter.
is_noise(oi_change_pct, vol_ratio) ==
    RLt(RAbs(oi_change_pct), R(1, 2)) /\ RLt(vol_ratio, R(11, 10))

NoiseLabel == <<"Noise", "Ignored due to low OI change and volume.">>

\* Lines 131-140: the context tag of a side's label.
context_tag(side, label) ==
    IF label = "Strong Short Build-up"
    THEN (IF side = "CE" THEN "Resistance Zone" ELSE "Support Zone")
    ELSE IF label = "Short Covering"
    THEN (IF side = "CE" THEN "Resistance weakening" ELSE "Support strengthening")
    ELSE "None"

\* Lines 145-152: _tag
_tag(vol_dir, oi_dir) ==
    IF vol_dir = "up" /\ oi_dir = "up" THEN "Aggressive"
    ELSE IF vol_dir = "up" /\ oi_dir = "down" THEN "Exit Activity"
    ELSE IF vol_dir = "down" THEN "Low Participation"
    ELSE "-"

\* Lines 116-118, 125, 128, 131-142 and 157-172 for CE; 120-122, 126, 129,
\* 137-143 and 173-188 for PE: the fields of a row that belong to one side.
classify_side(side, f, avg_volume, top_20_threshold) ==
    LET p == _price_direction(f.last, f.prev)
        o == _oi_direction(f.oi, f.prev_oi)
        v == _volume_direction(f.vol, avg_volume, top_20_threshold)
        noise == is_noise(o[3], v[2])
        interp == IF ~noise THEN _interpret(p[1], o[1], v[1]) ELSE NoiseLabel
    IN  [OI |-> f.oi, DeltaOI |-> f.doi, Volume |-> f.vol, LastPrice |-> f.last,
         PriceChange |-> IF truthy(f.prev) THEN val(f.last) - val(f.prev) ELSE 0,
         PriceDir |-> p[1], OIDir |-> o[1], VolDir |-> v[1],
         Interpretation |-> interp[1], InterpretationDesc |-> interp[2],
         ConfidenceScore |-> _confidence(p[2], o[2], v[2], v[1]),
         OIChangePct |-> o[3], VolumeRatio |-> v[2],
         StrengthScore |-> RAdd(RAdd(R(v[2].n * 2, v[2].d), RAbs(o[3])), RAbs(p[2])),
         ContextTag |-> context_tag(side, interp[1]),
         UITag |-> _tag(v[1], o[1])]

\* records.data of a document, [] when it is missing (lines 66-67).
records_data(nse_json) == get(get(nse_json, "records", EmptyDict), "data", <<>>)

\* build_oi_volume_summary, lines 65-192: [raised, rows].  A row holds its two
\* sides as CE and PE (CE_OI of the source is row.CE.OI).
build_oi_volume_summary(nse_json) ==
    LET data_ == records_data(nse_json)
        spot == get(get(nse_json, "records", EmptyDict), "underlyingValue", None)
        ce_vols == side_vols(data_, "CE")
        pe_vols == side_vols(data_, "PE")
        ce_avg_vol == avg_vol(ce_vols)
        pe_avg_vol == avg_vol(pe_vols)
        ce_top_20 == top_20(ce_vols)
        pe_top_20 == top_20(pe_vols)
        fields == [i \in 1..Len(data_) |->
                     [ce |-> side_fields(get(data_[i], "CE", EmptyDict)),
                      pe |-> side_fields(get(data_[i], "PE", EmptyDict))]]
        raises(i) == \/ side_raises(fields[i].ce, ce_avg_vol, ce_top_20)
                     \/ side_raises(fields[i].pe, pe_avg_vol, pe_top_20)
                     \/ signal_raises(fields[i].ce, fields[i].pe)
    IN  IF \E i \in 1..Len(data_) : raises(i)
        THEN [raised |-> TRUE, rows |-> <<>>]
        ELSE [raised |-> FALSE,
              rows |-> [i \in 1..Len(data_) |->
                          [strike |-> get(data_[i], "strikePrice", None),
                           spot |-> spot,
                           CE |-> classify_side("CE", fields[i].ce, ce_avg_vol, ce_top_20),
                           PE |-> classify_side("PE", fields[i].pe, pe_avg_vol, pe_top_20),
                           signal |-> signal_of(fields[i].ce, fields[i].pe)]]]


\* build_target_projection (parser.py, imported by the router): the nearest
\* strike below spot with a support tag on its put side, the nearest strike
\* above spot with a resistance tag on its call side; the empty dict when no
\* row is eligible.
build_target_projection(rows_, spot) ==
    LET sup == {i \in 1..Len(rows_) :
                  /\ spot # None /\ rows_[i].strike # None
                  /\ val(rows_[i].strike) < val(spot)
                  /\ rows_[i].PE.ContextTag \in {"Support Zone", "Support strengthening"}}
        res == {i \in 1..Len(rows_) :
                  /\ spot # None /\ rows_[i].strike # None
                  /\ val(rows_[i].strike) > val(spot)
                  /\ rows_[i].CE.ContextTag \in {"Resistance Zone", "Resistance weakening"}}
        nearest(S) == IF S = {} THEN None
                      ELSE rows_[CHOOSE i \in S : \A j \in S :
                                    \/ val(rows_[i].strike) - val(spot) =
                                       val(rows_[j].strike) - val(spot)
                                    \/ (IF val(rows_[i].strike) < val(spot)
                                        THEN val(rows_[i].strike) > val(rows_[j].strike)
                                        ELSE val(rows_[i].strike) < val(rows_[j].strike))
                                ].strike
    IN  IF sup = {} /\ res = {} THEN EmptyDict
        ELSE [support |-> nearest(sup), resistance |-> nearest(res)]

-----------------------------------------------------------------------------
(* routers/option_chain.py *)

Side(oi, doi, vol, last, prev, prev_oi) ==
    [openInterest |-> Num(oi), changeinOpenInterest |-> Num(doi),
     totalTradedVolume |-> Num(vol), lastPrice |-> Num(last), prevPrice |-> Num(prev),
     prevOpenInterest |-> Num(prev_oi)]

Quiet == Side(1000, 0, 10, 1000, 1000, 1000)

\* The documents behind the bodies the provider serves.
JsonOf(body) ==
    IF body = "chain"
    THEN [records |->
            [underlyingValue |-> Num(100),
             data |-> << [strikePrice |-> Num(90), CE |-> Quiet,
                          PE |-> Side(1100, 100, 30, 990, 1000, 1000)] >>]]
    ELSE IF body = "norecords" THEN [message |-> "no data"]
    ELSE EmptyDict

\* What the endpoint answers once fetch has returned or raised:
\* option_chain_summary 65-97,
\* option_chain_target_projection 113-138, option_chain_interpretations 154-197.
\* An exception that no handler catches is a 500.
Respond(ep, result) ==
    IF result.kind = "error" THEN [ep |-> ep, status |-> 502, nrows |-> 0]
    ELSE LET raw == JsonOf(result.payload.body)
             built == build_oi_volume_summary(raw)
             spot == get(get(raw, "records", EmptyDict), "underlyingValue", None)
             n == Len(built.rows)
         IN  IF built.raised THEN [ep |-> ep, status |-> 500, nrows |-> 0]
             ELSE IF ep = "summary"
             THEN [ep |-> ep, status |-> IF n = 0 THEN 502 ELSE 200, nrows |-> n]
             ELSE IF ep = "target-projection"
             THEN [ep |-> ep,
                   status |-> IF n = 0 THEN 502
                              ELSE IF build_target_projection(built.rows, spot) = EmptyDict
                                   THEN 502 ELSE 200,
                   nrows |-> n]
             ELSE [ep |-> ep, status |-> 200, nrows |-> n]

\* The endpoint turns the outcome of fetch into its response.  The three
\* endpoints make the same request and read nothing of their own before fetch
\* has returned, so which of them the thread serves is drawn here.
Handle(t) ==
    /\ pc[t] = "handle"
    /\ \E ep \in Endpoints : resp' = [resp EXCEPT ![t] = Respond(ep, frame[t].result)]
    /\ frame' = [frame EXCEPT ![t] = IdleFrame]
    /\ session_primed' = live_sessions(session_primed, _SESSION, frame')
    /\ pc' = [pc EXCEPT ![t] = "send"]
    /\ UNCHANGED <<now, _SESSION_LOCK, _SESSION, _SESSION_LAST_PRIME_TS,
                   _LAST_GOOD_CACHE>>

\* The response leaves the server and the thread goes back to the pool.
Send(t) ==
    /\ pc[t] = "send"
    /\ resp' = [resp EXCEPT ![t] = NoResp]
    /\ pc' = [pc EXCEPT ![t] = "done"]
    /\ UNCHANGED <<now, _SESSION_LOCK, _SESSION, _SESSION_LAST_PRIME_TS, session_primed,
                   _LAST_GOOD_CACHE, frame>>

-----------------------------------------------------------------------------
(* The server: request threads over the shared session and cache *)

NotRun == [raised |-> FALSE, rows |-> <<>>, done |-> FALSE]

Init ==
    /\ FetchInit
    /\ data = <<>>
    /\ rows = NotRun

\* Two requests at once, each on its own thread.
Next ==
    \/ Tick /\ UNCHANGED <<served, data, rows>>
    \/ \E t \in Threads :
         /\ \/ Call(t) \/ AcquireLock(t) \/ EnsureSession(t) \/ PrimeCheck(t)
            \/ PrimeGet1(t) \/ PrimeGet2(t) \/ DataGet(t, ConcurrentOutcomes, ConcurrentBodies)
            \/ Fallback(t) \/ Handle(t) \/ Send(t)
         /\ UNCHANGED <<served, data, rows>>

Spec == Init /\ [][Next]_vars

\* The thread takes its next request.
Recycle(t) ==
    /\ pc[t] = "done"
    /\ served < MaxCalls - 1
    /\ served' = served + 1
    /\ pc' = [pc EXCEPT ![t] = "idle"]
    /\ UNCHANGED <<now, _SESSION_LOCK, _SESSION, _SESSION_LAST_PRIME_TS, session_primed,
                   _LAST_GOOD_CACHE, frame, resp>>

\* One thread serving requests one after the other, the provider answering
\* in every way it can.
SeqNext ==
    \/ Tick /\ UNCHANGED <<served, data, rows>>
    \/ /\ \/ Call(1) \/ AcquireLock(1) \/ EnsureSession(1) \/ PrimeCheck(1)
          \/ PrimeGet1(1) \/ PrimeGet2(1) \/ DataGet(1, GetOutcomes, Bodies)
          \/ Fallback(1) \/ Handle(1) \/ Send(1)
       /\ UNCHANGED <<served, data, rows>>
    \/ Recycle(1) /\ UNCHANGED <<data, rows>>

SeqSpec == Init /\ [][SeqNext]_vars


-----------------------------------------------------------------------------
(* The classifier on its own: build_oi_volume_summary applied to snapshots *)

MaxStrikes == 3               \* strikes of a snapshot whose volumes vary freely
PadCounts == {0, 10 - MaxStrikes}   \* further strikes, all of one volume, up to ten in all
PadVolumes == {0, 10}
Volumes == {0, 8, 9, 10, 11, 12}

\* (lastPrice, prevPrice): +0.5%, +0.4%, -0.5%, no previous price
PriceOptions == {<<1005, 1000>>, <<1004, 1000>>, <<995, 1000>>, <<5, 0>>}
\* (openInterest, prevOpenInterest): +1.1%, +1%, +0.5%, +0.4%, 0, -1.1%, no previous OI
OIOptions == {<<1011, 1000>>, <<1010, 1000>>, <<1005, 1000>>, <<1004, 1000>>,
              <<1000, 1000>>, <<989, 1000>>, <<7, 0>>}

\* A side that is flat but for its volume.
FlatSide(vol) == Side(1000, 0, vol, 1000, 1000, 1000)

VariedSides ==
    {Side(o[1], o[1] - o[2], v, p[1], p[2], o[2]) :
        o \in OIOptions, p \in PriceOptions, v \in Volumes}

\* Strike i of a snapshot, both sides flat with volume v.
FlatItem(i, v) == [strikePrice |-> Num(900 + 50 * i), CE |-> FlatSide(v), PE |-> FlatSide(v)]

\* Sides whose price and OI are one of two kinds and whose volume varies.
VolumeSides ==
    {Side(o[1], o[1] - o[2], v, 1005, 1000, o[2]) :
        o \in {<<1011, 1000>>, <<1000, 1000>>}, v \in Volumes}

\* The first strike of a snapshot: one side from S, the other flat.
FirstItems(S) ==
    {[strikePrice |-> Num(900), CE |-> sd, PE |-> FlatSide(10)] : sd \in S}
        \cup {[strikePrice |-> Num(900), CE |-> FlatSide(10), PE |-> sd] : sd \in S}

FlatItems(vols, from) == [i \in 1..Len(vols) |-> FlatItem(from + i, vols[i])]

\* Snapshots for the directions: every varied side, before a few tails.
DirectionSnapshots ==
    {<<first>> \o FlatItems(tail, 0) :
        first \in FirstItems(VariedSides), tail \in {<<>>, <<10>>, <<12, 8>>}}

\* Snapshots for the volumes: up to MaxStrikes strikes of any volumes, then a
\* pad of equal strikes.
VolumeSnapshots ==
    {<<first>> \o FlatItems(tail, 0) \o FlatItems([i \in 1..pad |-> w], Len(tail)) :
        first \in FirstItems(VolumeSides),
        tail \in UNION {[1..m -> Volumes] : m \in 0..(MaxStrikes - 1)},
        pad \in PadCounts,
        w \in PadVolumes}

GeneralSnapshots == DirectionSnapshots \cup VolumeSnapshots

\* The call side of the scenario: last 110, previous 100, OI 1000, previous OI
\* 500, volume 5000.
ScenarioSide == Side(1000, 500, 5000, 110, 100, 500)
ScenarioItem == [strikePrice |-> Num(900), CE |-> ScenarioSide, PE |-> FlatSide(10)]
QuietItem(i, v) == [strikePrice |-> Num(900 + 50 * i), CE |-> FlatSide(v), PE |-> FlatSide(10)]

ScenarioSnapshots ==
    { <<ScenarioItem>>,
      <<ScenarioItem>> \o [i \in 1..4 |-> QuietItem(i, 0)],
      [i \in 1..4 |-> QuietItem(i, 0)] \o <<ScenarioItem>>,
      <<ScenarioItem, QuietItem(1, 5000)>> \o [i \in 1..8 |-> QuietItem(i + 1, 0)],
      <<ScenarioItem, QuietItem(1, 5000)>> }

\* Sides whose fields are each a number, zero, null or absent; the previous
\* price and previous OI also under their second key.
FieldOptions == {"absent", "null", "zero", "num"}
PrevOptions == FieldOptions \cup {"alt"}

FieldValue(opt, n) == IF opt = "null" THEN None ELSE IF opt = "zero" THEN Num(0) ELSE Num(n)

SparseSide(c) ==
    LET present == {k \in DOMAIN c : c[k] # "absent"}
        keyOf(k) == IF k = "prevPrice" /\ c[k] = "alt" THEN "previousClose"
                    ELSE IF k = "prevOpenInterest" /\ c[k] = "alt" THEN "previousOpenInterest"
                    ELSE k
        numOf == [openInterest |-> 1010, changeinOpenInterest |-> 10,
                  totalTradedVolume |-> 8, lastPrice |-> 1005, prevPrice |-> 1000,
                  prevOpenInterest |-> 1000]
    IN  [key \in {keyOf(k) : k \in present} |->
            LET k == CHOOSE k \in present : keyOf(k) = key IN FieldValue(c[k], numOf[k])]

SparseSides ==
    {SparseSide(c) :
        c \in [openInterest : FieldOptions, changeinOpenInterest : FieldOptions,
               totalTradedVolume : FieldOptions, lastPrice : FieldOptions,
               prevPrice : PrevOptions, prevOpenInterest : PrevOptions]}

SparseSnapshots ==
    {<<first>> \o tail :
        first \in {[strikePrice |-> Num(900), CE |-> sd, PE |-> FlatSide(10)] : sd \in SparseSides}
                  \cup {[strikePrice |-> Num(900), CE |-> EmptyDict, PE |-> sd] :
                          sd \in SparseSides},
        tail \in {<<>>, <<FlatItem(1, 10)>>}}

Snapshots == GeneralSnapshots \cup ScenarioSnapshots \cup SparseSnapshots

ClassifyInit ==
    /\ FetchInit
    /\ data \in Snapshots
    /\ rows = NotRun

\* build_oi_volume_summary(nse_json) on a document whose records.data is data.
Classify ==
    /\ ~rows.done
    /\ LET built == build_oi_volume_summary(
                        [records |-> [data |-> data, underlyingValue |-> Num(1000)]])
       IN  rows' = [raised |-> built.raised, rows |-> built.rows, done |-> TRUE]
    /\ UNCHANGED <<data, now, _SESSION_LOCK, _SESSION, _SESSION_LAST_PRIME_TS,
                   session_primed, _LAST_GOOD_CACHE, pc, frame, resp, served>>

ClassifyNext == Classify

ClassifySpec == ClassifyInit /\ [][ClassifyNext]_vars

-----------------------------------------------------------------------------
(* Claims about the fetch *)

\* The step in which thread t leaves the fallback of lines 91-95.
FallbackStep(t) == pc[t] = "fallback" /\ pc'[t] = "handle"

\* The step in which thread t's data GET succeeds.
SuccessStep(t) == pc[t] = "get" /\ frame'[t].outcome = "ok"

\* The step in which an attempt of thread t fails.
FailureStep(t) == frame'[t].attempt = frame[t].attempt + 1

\* C1: a call of _request_json issues at most 3 data GETs; it returns a cached
\* payload only when all three attempts have failed, and then only an entry
\* that is at most 120 seconds old at the moment of the fallback.
C1_BoundedRetriesFreshCache ==
    [][\A t \in Threads :
         /\ frame'[t].gets <= 3
         /\ frame'[t].result.kind = "cached" =>
              /\ frame'[t].attempt = 3
              /\ frame'[t].outcome # "ok"
         /\ (frame'[t].result.kind = "cached" /\ frame[t].result.kind # "cached") =>
              /\ FallbackStep(t)
              /\ frame[t].key \in DOMAIN _LAST_GOOD_CACHE
              /\ now - _LAST_GOOD_CACHE[frame[t].key].ts <= 120
              /\ frame'[t].result.payload = _LAST_GOOD_CACHE[frame[t].key].payload
         /\ (FallbackStep(t) /\ frame[t].key \in DOMAIN _LAST_GOOD_CACHE
               /\ now - _LAST_GOOD_CACHE[frame[t].key].ts > 120) =>
              frame'[t].result.kind = "error"]_vars

\* C1 witness: a call that made 3 data GETs is answered from an entry that is
\* exactly 120 seconds old.
C1_Witness ==
    \E t \in Threads :
        /\ pc[t] = "handle"
        /\ frame[t].result.kind = "cached"
        /\ frame[t].gets = 3
        /\ frame[t].key \in DOMAIN _LAST_GOOD_CACHE
        /\ now - _LAST_GOOD_CACHE[frame[t].key].ts = 120

\* The text str() gives for what went wrong in an attempt.
TextOfOutcome(outcome) ==
    IF outcome = "401" THEN <<"HTTP", "401">>
    ELSE IF outcome = "403" THEN <<"HTTP", "403">>
    ELSE IF outcome = "empty" THEN <<"Empty JSON payload">>
    ELSE <<outcome>>

\* C2: when all three attempts have failed, fetch returns the payload cached
\* for the identical URL and parameters if that entry is at most 120 seconds
\* old, and otherwise fails with one error that carries the error text of the
\* last failed attempt.
C2_FallbackOrLastError ==
    [][\A t \in Threads : FallbackStep(t) =>
         LET f == frame[t]
             r == frame'[t].result
         IN  /\ f.attempt = 3
             /\ IF f.key \in DOMAIN _LAST_GOOD_CACHE
                   /\ now - _LAST_GOOD_CACHE[f.key].ts <= 120
                THEN /\ r.kind = "cached"
                     /\ r.payload = _LAST_GOOD_CACHE[f.key].payload
                     /\ r.payload.for.url = f.req.url
                     /\ r.payload.for.params = f.req.params
                     /\ r.error = <<>>
                ELSE /\ r.kind = "error"
                     /\ r.payload = NoPayload
                     /\ r.error = <<"NSE", f.req.context, "failed after retries:">>
                                    \o TextOfOutcome(f.outcome)]_vars

\* C2 witness: three attempts, the last a 403, and the payload stored earlier
\* for the same request is returned.
C2_Witness ==
    \E t \in Threads :
        /\ pc[t] = "handle"
        /\ frame[t].result.kind = "cached"
        /\ frame[t].outcome = "403"
        /\ frame[t].gets = 3
        /\ frame[t].result.payload.for = frame[t].req
        /\ frame[t].req.params = [type |-> "Indices", symbol |-> "NIFTY", expiry |-> "27-Nov-2026"]

\* C3, as claimed: a thread that is creating or priming a session holds
\* _SESSION_LOCK, so no two threads prime at the same time.
C3_PrimingUnderLock ==
    /\ \A t \in Threads : pc[t] \in {"locked", "prime", "prime1", "prime2"} => _SESSION_LOCK = t
    /\ \A t, u \in Threads :
         (pc[t] \in {"prime1", "prime2"} /\ pc[u] \in {"prime1", "prime2"}) => t = u

\* What does hold of the lock: the creation of a session is under it.
SessionCreatedUnderLock ==
    [][_SESSION' # _SESSION => \E t \in Threads : _SESSION_LOCK = t /\ pc[t] = "locked"]_vars

\* C4, as claimed: a classifying endpoint never answers 200 from an empty row
\* sequence; it answers 502 as for a failed fetch.
C4_EmptyRowsAreBadGateway ==
    \A t \in Threads :
        (resp[t].ep \in Endpoints /\ resp[t].nrows = 0) => resp[t].status = 502

\* C10: every cache entry under key k holds a non-empty payload returned by a
\* successful data GET for k, stamped with the time of that success; the
\* successful attempt stores and returns it and is the last of its call; a
\* failed attempt and the fallback leave the cache as it is, and entries are
\* never removed.
C10_CacheHoldsSuccessesOnly ==
    [][/\ \A k \in DOMAIN _LAST_GOOD_CACHE' :
            LET e == _LAST_GOOD_CACHE'[k] IN
            /\ e.payload.body \notin {"empty", "none"}
            /\ _cache_key(e.payload.for.url, e.payload.for.params) = k
            /\ e.ts <= now'
            /\ (k \notin DOMAIN _LAST_GOOD_CACHE \/ _LAST_GOOD_CACHE[k] # e) =>
                 \E t \in Threads :
                    /\ SuccessStep(t)
                    /\ frame[t].key = k
                    /\ e.ts = now
                    /\ e.payload.for = frame[t].req
                    /\ frame'[t].result = [kind |-> "fresh", payload |-> e.payload,
                                           error |-> <<>>]
       /\ DOMAIN _LAST_GOOD_CACHE \subseteq DOMAIN _LAST_GOOD_CACHE'
       /\ \A t \in Threads :
            /\ SuccessStep(t) =>
                 /\ pc'[t] = "handle"
                 /\ frame'[t].attempt = frame[t].attempt
                 /\ frame[t].key \in DOMAIN _LAST_GOOD_CACHE'
                 /\ _LAST_GOOD_CACHE'[frame[t].key] =
                      [ts |-> now, payload |-> frame'[t].result.payload]
            /\ (FailureStep(t) \/ FallbackStep(t)) => _LAST_GOOD_CACHE' = _LAST_GOOD_CACHE
            /\ pc[t] = "handle" => frame'[t].gets <= frame[t].gets]_vars

\* C10 witness: both keys are cached, one entry written after the other, the
\* later one by an attempt that followed a failed one.
C10_Witness ==
    /\ Cardinality(DOMAIN _LAST_GOOD_CACHE) = 2
    /\ \E k1, k2 \in DOMAIN _LAST_GOOD_CACHE :
         _LAST_GOOD_CACHE[k1].ts < _LAST_GOOD_CACHE[k2].ts
    /\ \E t \in Threads :
         /\ pc[t] = "handle"
         /\ frame[t].result.kind = "fresh"
         /\ frame[t].attempt > 0
         /\ _LAST_GOOD_CACHE[frame[t].key].ts = now

\* The step in which thread t issues the data GET of line 76.
DataGetStep(t) == pc[t] = "get" /\ frame'[t].gets = frame[t].gets + 1

\* C11, as claimed: every data GET is issued on a session object whose two
\* priming GETs have completed (within the previous 600 seconds: the clock of
\* the model runs for less than that, so a priming that completed is a recent
\* one); in particular the first attempt of a fetch does not go on, unprimed,
\* with a session that a forced refresh created and nothing primed.
C11_DataGetOnPrimedSession ==
    [][\A t \in Threads : DataGetStep(t) => frame[t].session \in session_primed]_vars


-----------------------------------------------------------------------------
(* Claims about the classifier *)

Sides == {"CE", "PE"}
Built == rows.done /\ ~rows.raised
Strikes == 1..Len(data)

\* The side sd of strike i holds its six fields, each a number.
Numeric(i, sd) ==
    /\ sd \in DOMAIN data[i]
    /\ \A k \in {"openInterest", "changeinOpenInterest", "totalTradedVolume", "lastPrice",
                 "prevPrice", "prevOpenInterest"} :
          k \in DOMAIN data[i][sd] /\ data[i][sd][k] # None

AllNumeric == \A i \in Strikes, sd \in Sides : Numeric(i, sd)

VolumeOf(i, sd) == val(data[i][sd].totalTradedVolume)
TotalVolume(sd) == sum([i \in Strikes |-> VolumeOf(i, sd)])

\* The interpretation matrix, in its order of precedence.
Matrix ==
    << <<"up", "up", "up", "Strong Long Build-up">>,
       <<"down", "up", "up", "Strong Short Build-up">>,
       <<"up", "down", "up", "Short Covering">>,
       <<"down", "down", "up", "Long Unwinding">>,
       <<"neutral", "up", "down", "Quiet Position Building">>,
       <<"neutral", "down", "down", "No Interest Zone">> >>

FirstMatch(p, o, v) ==
    LET hits == {i \in 1..Len(Matrix) :
                    Matrix[i][1] = p /\ Matrix[i][2] = o /\ Matrix[i][3] = v}
    IN  IF hits = {} THEN "Mixed"
        ELSE Matrix[CHOOSE i \in hits : \A j \in hits : i <= j][4]

\* C5: the label of every strike and side is "Noise" when |OI change%| < 0.5
\* and volume ratio < 1.1, whatever the three directions; otherwise it is the
\* label of the first entry of the matrix that matches them, or "Mixed".
C5_NoiseThenMatrix ==
    Built =>
      \A i \in Strikes, sd \in Sides :
         LET x == rows.rows[i][sd]
             pct == x.OIChangePct
             ratio == x.VolumeRatio
         IN  /\ Numeric(i, sd) =>
                  LET oi == val(data[i][sd].openInterest)
                      prev == val(data[i][sd].prevOpenInterest)
                  IN  IF prev = 0 THEN pct.n = 0
                      ELSE pct.n * prev = (oi - prev) * 100 * pct.d
             /\ x.Interpretation =
                  IF 2 * Abs(pct.n) < pct.d /\ 10 * ratio.n < 11 * ratio.d
                  THEN "Noise"
                  ELSE FirstMatch(x.PriceDir, x.OIDir, x.VolDir)

\* C5 witness: a side whose price and volume point up is labelled Noise, next
\* to a side that carries a label of the matrix.
C5_Witness ==
    /\ Built
    /\ \E i \in Strikes, sd \in Sides :
          /\ rows.rows[i][sd].Interpretation = "Noise"
          /\ rows.rows[i][sd].PriceDir = "up"
          /\ rows.rows[i][sd].VolDir = "up"
    /\ Len(data) > 1

\* C6: a call side with last price 110, previous price 100, OI 1000, previous
\* OI 500 and volume 5000, in a snapshot whose average call volume is 1000
\* (ratio 5), has price, OI and volume directions up, the label "Strong Long
\* Build-up" and confidence 100; so it has when it is the only strike.
C6_Scenario ==
    Built =>
      \A i \in Strikes :
         LET x == rows.rows[i].CE
             avgIs1000 == AllNumeric /\ TotalVolume("CE") = 1000 * Len(data)
         IN  (data[i].CE = [openInterest |-> Num(1000), changeinOpenInterest |-> Num(500),
                            totalTradedVolume |-> Num(5000), lastPrice |-> Num(110),
                            prevPrice |-> Num(100), prevOpenInterest |-> Num(500)]
              /\ (avgIs1000 \/ Len(data) = 1)) =>
                /\ x.PriceDir = "up" /\ x.OIDir = "up" /\ x.VolDir = "up"
                /\ x.Interpretation = "Strong Long Build-up"
                /\ x.ConfidenceScore = 100
                /\ avgIs1000 => x.VolumeRatio = [n |-> 5, d |-> 1]

\* C6 witness: the scenario's call side among five strikes of average call
\* volume 1000, classified.
C6_Witness ==
    /\ Built
    /\ Len(data) = 5
    /\ AllNumeric /\ TotalVolume("CE") = 5000
    /\ \E i \in Strikes : /\ VolumeOf(i, "CE") = 5000
                          /\ val(data[i].CE.lastPrice) = 110
                          /\ rows.rows[i].CE.ConfidenceScore = 100

\* Every strike of side sd has the same volume and an unchanged open interest.
EqualVolumesFlatOI(sd) ==
    /\ Len(data) > 0
    /\ \A i \in Strikes :
          /\ Numeric(i, sd)
          /\ VolumeOf(i, sd) = VolumeOf(1, sd)
          /\ data[i][sd].openInterest = data[i][sd].prevOpenInterest

\* C7, as claimed: with equal volumes and unchanged OI on a side, every row of
\* the side has volume direction neutral and OI direction neutral, and its
\* label is "Mixed" unless it is noise-filtered.
C7_EqualVolumesNeutral ==
    Built =>
      \A sd \in Sides : EqualVolumesFlatOI(sd) =>
         \A i \in Strikes :
            /\ rows.rows[i][sd].VolDir = "neutral"
            /\ rows.rows[i][sd].OIDir = "neutral"
            /\ rows.rows[i][sd].Interpretation \in {"Mixed", "Noise"}

\* C7, amended: with equal volumes and unchanged OI on a side, every row of the
\* side has OI direction neutral and volume ratio 1, but its volume direction
\* is up, each volume being the side's top-20% threshold (ratio 0 and direction
\* down when the common volume is 0); every such row is noise-filtered, so its
\* label is "Noise".
C7_EqualVolumesUpAndNoise ==
    Built =>
      \A sd \in Sides : EqualVolumesFlatOI(sd) =>
         \A i \in Strikes :
            LET x == rows.rows[i][sd] IN
            /\ x.OIDir = "neutral"
            /\ x.VolumeRatio = IF VolumeOf(1, sd) > 0 THEN [n |-> 1, d |-> 1]
                               ELSE [n |-> 0, d |-> 1]
            /\ x.VolDir = IF VolumeOf(1, sd) > 0 THEN "up" ELSE "down"
            /\ x.Interpretation = "Noise"

\* C7 witness: three call sides of one positive volume and unchanged OI, the
\* first with a rising price.
C7_Witness ==
    /\ Built
    /\ Len(data) = 3
    /\ EqualVolumesFlatOI("CE")
    /\ VolumeOf(1, "CE") > 0
    /\ rows.rows[1].CE.PriceDir = "up"
    /\ rows.rows[3].CE.VolDir = "up"

\* The element at index max(0, floor(n * 0.2) - 1) of the side's volumes sorted
\* descending: at most that many volumes are larger, more than that many are
\* at least as large.
ThresholdOf(sd) ==
    LET n == Len(data)
        idx == IF n \div 5 - 1 > 0 THEN n \div 5 - 1 ELSE 0
    IN  CHOOSE T \in {VolumeOf(i, sd) : i \in Strikes} :
           /\ Cardinality({i \in Strikes : VolumeOf(i, sd) > T}) <= idx
           /\ Cardinality({i \in Strikes : VolumeOf(i, sd) >= T}) > idx

\* The volume direction of strike i of side sd by the rule: ratio is
\* volume / average (0 when the average is 0); up if ratio >= 1.2 or byThreshold,
\* else down if ratio <= 0.8, else neutral.
DirectionByRule(i, sd, byThreshold) ==
    LET n == Len(data)
        total == TotalVolume(sd)
        v == VolumeOf(i, sd)
    IN  IF (total # 0 /\ 5 * v * n >= 6 * total) \/ byThreshold THEN "up"
        ELSE IF total = 0 \/ 5 * v * n <= 4 * total THEN "down"
        ELSE "neutral"

RatioByRule(i, sd, ratio) ==
    IF TotalVolume(sd) = 0 THEN ratio.n = 0
    ELSE ratio.n * TotalVolume(sd) = VolumeOf(i, sd) * Len(data) * ratio.d

\* C8, as claimed: up if ratio >= 1.2 or volume >= threshold, a threshold of 0
\* included.
C8_VolumeDirection ==
    (Built /\ AllNumeric) =>
      \A i \in Strikes, sd \in Sides :
         /\ RatioByRule(i, sd, rows.rows[i][sd].VolumeRatio)
         /\ rows.rows[i][sd].VolDir =
              DirectionByRule(i, sd, VolumeOf(i, sd) >= ThresholdOf(sd))

\* C8, amended: the volume direction is up if ratio >= 1.2, or if the threshold
\* is not 0 and volume >= threshold; otherwise down if ratio <= 0.8; otherwise
\* neutral; ratio and threshold as claimed.
C8_VolumeDirectionNonzeroThreshold ==
    (Built /\ AllNumeric) =>
      \A i \in Strikes, sd \in Sides :
         /\ RatioByRule(i, sd, rows.rows[i][sd].VolumeRatio)
         /\ rows.rows[i][sd].VolDir =
              DirectionByRule(i, sd, ThresholdOf(sd) # 0
                                        /\ VolumeOf(i, sd) >= ThresholdOf(sd))

\* C8 witness: ten strikes, the threshold their second largest call volume; a
\* strike at the threshold, below the largest and with a ratio under 1.2, is up.
C8_Witness ==
    /\ Built /\ AllNumeric
    /\ Len(data) = 10
    /\ \E i, j \in Strikes :
          /\ VolumeOf(i, "CE") = ThresholdOf("CE")
          /\ VolumeOf(j, "CE") > VolumeOf(i, "CE")
          /\ 5 * VolumeOf(i, "CE") * 10 < 6 * TotalVolume("CE")
          /\ rows.rows[i].CE.VolDir = "up"

\* C9, as claimed: build_oi_volume_summary never raises and returns one row
\* per strike, whatever fields are numbers, zero, absent or null.
C9_NeverRaises ==
    rows.done => (~rows.raised /\ Len(rows.rows) = Len(data))

====
